---- MODULE Spec2Model ----
(***************************************************************************)
(* Model of Reader.prepare_train_features and                              *)
(* Reader.prepare_validation_features (src/code/read/mrc_reader.py).       *)
(*                                                                         *)
(* Python lists are 0-indexed: every token index kept in the state         *)
(* (cls_index, start_positions, end_positions, i, sample_mapping) is the   *)
(* 0-based Python value, and PyGet reads a TLA+ sequence the way Python    *)
(* reads a list (negative indices count from the end, anything else        *)
(* outside the list raises IndexError).                                    *)
(*                                                                         *)
(* The tokenizer is the transformers fast tokenizer the code calls with    *)
(* truncation of the context only, max_length, stride,                     *)
(* return_overflowing_tokens and return_offsets_mapping.  It is modelled   *)
(* for a BERT-style template: [CLS] first [SEP] second [SEP], special and  *)
(* padding tokens carrying the offset (0, 0) and the sequence id None.     *)
(* A text is represented by the character offsets of its tokens; an        *)
(* answer text by its length (the code only reads len(answers["text"][0])).*)
(***************************************************************************)
EXTENDS Integers, Sequences, FiniteSets, TLC

\* ------------------------------------------------------------------ bounds
MaxCtxTokens == 3
MaxTokWidth == 2
MaxAnsLen == 2
MaxCtxCap == 2
MaxStride == 1
MaxGap == 1
NumQTokens == 2

\* ----------------------------------------------------------- Python lists
Min(a, b) == IF a <= b THEN a ELSE b
Max(a, b) == IF a >= b THEN a ELSE b

\* list[k] is defined for -len <= k < len
InRange(list, k) == -Len(list) <= k /\ k < Len(list)

\* list[k], for k in range
PyGet(list, k) == IF k >= 0 THEN list[k + 1] ELSE list[Len(list) + k + 1]

\* sequence_ids of a special or padding token (Python None)
NoneTag == -1

\* the entry prepare_validation_features writes for a non-context token
\* (Python None, distinct from every (start, end) pair)
None == << >>

\* ------------------------------------------------------------- tokenizer
CLS == "[CLS]"
SEP == "[SEP]"
PAD == "[PAD]"

\* offsets of the question's tokens in the question text: two characters
\* each, one space apart
QuestionOffsets == [j \in 1..NumQTokens |-> <<3 * (j - 1), 3 * (j - 1) + 2>>]

Special(id) == [id |-> id, offset |-> <<0, 0>>, seq |-> NoneTag]

Tagged(id, offs, tag) == [j \in 1..Len(offs) |-> [id |-> id, offset |-> offs[j], seq |-> tag]]

\* (question | context) when padding on the right, (context | question)
\* otherwise: the first text has sequence id 0, the second 1
Template(ctx, pad_on_right) ==
    IF pad_on_right
    THEN <<Special(CLS)>> \o Tagged("q", QuestionOffsets, 0) \o <<Special(SEP)>>
         \o Tagged("c", ctx, 1) \o <<Special(SEP)>>
    ELSE <<Special(CLS)>> \o Tagged("c", ctx, 0) \o <<Special(SEP)>>
         \o Tagged("q", QuestionOffsets, 1) \o <<Special(SEP)>>

\* number of context tokens one window keeps under max_length
ContextCapacity(max_length, pad_on_right) == max_length - Len(Template(<< >>, pad_on_right))

Padded(body, max_length, pad, pad_on_right) ==
    LET pads == [j \in 1..Max(0, max_length - Len(body)) |-> Special(PAD)]
    IN  IF ~pad THEN body
        ELSE IF pad_on_right THEN body \o pads ELSE pads \o body

\* first context token (0-based) of each window: the next window starts
\* keep - stride tokens later, until a window reaches the end of the context
RECURSIVE WindowStarts(_, _, _, _)
WindowStarts(p, n, keep, stride) ==
    IF p + keep >= n THEN <<p>>
    ELSE <<p>> \o WindowStarts(p + keep - stride, n, keep, stride)

EncodePair(ex, max_length, stride, pad, pad_on_right) ==
    LET n      == Len(ex.context)
        keep   == ContextCapacity(max_length, pad_on_right)
        starts == WindowStarts(0, n, keep, stride)
    IN  [w \in 1..Len(starts) |->
            Padded(Template(SubSeq(ex.context, starts[w] + 1, Min(starts[w] + keep, n)),
                            pad_on_right),
                   max_length, pad, pad_on_right)]

RECURSIVE EncodeBatch(_, _, _, _, _, _)
EncodeBatch(examples, b, max_length, stride, pad, pad_on_right) ==
    IF b > Len(examples) THEN << >>
    ELSE LET ws == EncodePair(examples[b], max_length, stride, pad, pad_on_right)
         IN  [w \in 1..Len(ws) |-> [tokens |-> ws[w], sample |-> b - 1]]
             \o EncodeBatch(examples, b + 1, max_length, stride, pad, pad_on_right)

Field(tokens, f) == [k \in 1..Len(tokens) |-> tokens[k][f]]

\* the BatchEncoding the tokenizer call returns
Tokenizer(examples, max_length, stride, pad, pad_on_right) ==
    LET enc == EncodeBatch(examples, 1, max_length, stride, pad, pad_on_right)
    IN  [input_ids                  |-> [w \in 1..Len(enc) |-> Field(enc[w].tokens, "id")],
         offset_mapping             |-> [w \in 1..Len(enc) |-> Field(enc[w].tokens, "offset")],
         sequence_ids               |-> [w \in 1..Len(enc) |-> Field(enc[w].tokens, "seq")],
         overflow_to_sample_mapping |-> [w \in 1..Len(enc) |-> enc[w].sample]]

\* ------------------------------------------------- prepare_train_features
\* input_ids.index(x): the first position holding x, by linear search
\* (Len(list) stands for "not in the list", where Python raises ValueError)
RECURSIVE IndexFrom(_, _, _)
IndexFrom(list, x, k) ==
    IF k >= Len(list) THEN Len(list)
    ELSE IF list[k + 1] = x THEN k ELSE IndexFrom(list, x, k + 1)

\* faulty variant: the anchor is taken to be the first token of the window
ClsIndexFirstToken(ids) == 0

ClsIndex(ids) == IndexFrom(ids, CLS, 0)

\* (1 if pad_on_right else 0)
ContextIndex(pad_on_right) == IF pad_on_right THEN 1 ELSE 0

\* Each scan returns the index it stops at, whether the read at that index
\* raised IndexError, and the indices it used to read its list.

\* token_start_index = 0; while sequence_ids[token_start_index] != tag: += 1
RECURSIVE TokenStartScan(_, _, _, _)
TokenStartScan(seq_ids, tag, k, reads) ==
    IF ~InRange(seq_ids, k) THEN [index |-> k, raised |-> TRUE, reads |-> reads \cup {k}]
    ELSE IF PyGet(seq_ids, k) # tag THEN TokenStartScan(seq_ids, tag, k + 1, reads \cup {k})
    ELSE [index |-> k, raised |-> FALSE, reads |-> reads \cup {k}]

\* token_end_index = len(input_ids) - 1; while sequence_ids[token_end_index] != tag: -= 1
RECURSIVE TokenEndScan(_, _, _, _)
TokenEndScan(seq_ids, tag, k, reads) ==
    IF ~InRange(seq_ids, k) THEN [index |-> k, raised |-> TRUE, reads |-> reads \cup {k}]
    ELSE IF PyGet(seq_ids, k) # tag THEN TokenEndScan(seq_ids, tag, k - 1, reads \cup {k})
    ELSE [index |-> k, raised |-> FALSE, reads |-> reads \cup {k}]

\* faulty variant: "or" for "and"
AnswerInSpanEither(offsets, token_start_index, token_end_index, start_char, end_char) ==
    \/ PyGet(offsets, token_start_index)[1] <= start_char
    \/ PyGet(offsets, token_end_index)[2] >= end_char

\* faulty variant: the start of the answer is not compared
AnswerEndInSpan(offsets, token_start_index, token_end_index, start_char, end_char) ==
    PyGet(offsets, token_end_index)[2] >= end_char

\* faulty variant: the end of the answer is not compared
AnswerStartInSpan(offsets, token_start_index, token_end_index, start_char, end_char) ==
    PyGet(offsets, token_start_index)[1] <= start_char

\* offsets[token_start_index][0] <= start_char and offsets[token_end_index][1] >= end_char
AnswerInSpan(offsets, token_start_index, token_end_index, start_char, end_char) ==
    /\ PyGet(offsets, token_start_index)[1] <= start_char
    /\ PyGet(offsets, token_end_index)[2] >= end_char

\* while token_start_index < len(offsets) and offsets[token_start_index][0] <= start_char: += 1
RECURSIVE NarrowStart(_, _, _, _)
NarrowStart(offsets, start_char, k, reads) ==
    IF ~(k < Len(offsets)) THEN [index |-> k, raised |-> FALSE, reads |-> reads]
    ELSE IF PyGet(offsets, k)[1] <= start_char
         THEN NarrowStart(offsets, start_char, k + 1, reads \cup {k})
         ELSE [index |-> k, raised |-> FALSE, reads |-> reads \cup {k}]

\* while offsets[token_end_index][1] >= end_char: token_end_index -= 1
RECURSIVE NarrowEnd(_, _, _, _)
NarrowEnd(offsets, end_char, k, reads) ==
    IF ~InRange(offsets, k) THEN [index |-> k, raised |-> TRUE, reads |-> reads \cup {k}]
    ELSE IF PyGet(offsets, k)[2] >= end_char
         THEN NarrowEnd(offsets, end_char, k - 1, reads \cup {k})
         ELSE [index |-> k, raised |-> FALSE, reads |-> reads \cup {k}]

\* faulty variant: the answers of the first example of the batch
AnswersOfFirst(exs, mapping, w) == PyGet(exs, 0).answers

\* answers of the example window w (0-based) comes from
AnswersOf(exs, mapping, w) == PyGet(exs, PyGet(mapping, w)).answers

\* One iteration of the labelling loop on a window.  branch is the arm of
\* the code taken; starts / ends are what it appends to start_positions /
\* end_positions before it ends or raises.
LabelWindow(ids, offsets, seq_ids, answers, pad_on_right) ==
    LET cls_index  == ClsIndex(ids)
        tag        == ContextIndex(pad_on_right)
        start_char == answers.answer_start[1]
        end_char   == start_char + answers.text[1]
        s1 == TokenStartScan(seq_ids, tag, 0, {})
        s2 == TokenEndScan(seq_ids, tag, Len(ids) - 1, {})
        n1 == NarrowStart(offsets, start_char, s1.index, {})
        n2 == NarrowEnd(offsets, end_char, s2.index, {})
    IN  IF Len(answers.answer_start) = 0
        THEN [branch |-> "no_answers", raised |-> FALSE, reads |-> {},
              starts |-> <<cls_index>>, ends |-> <<cls_index>>]
        ELSE IF s1.raised
        THEN [branch |-> "scan", raised |-> TRUE, reads |-> s1.reads,
              starts |-> << >>, ends |-> << >>]
        ELSE IF s2.raised
        THEN [branch |-> "scan", raised |-> TRUE, reads |-> s1.reads \cup s2.reads,
              starts |-> << >>, ends |-> << >>]
        ELSE IF ~AnswerInSpan(offsets, s1.index, s2.index, start_char, end_char)
        THEN [branch |-> "out_of_span", raised |-> FALSE, reads |-> s1.reads \cup s2.reads,
              starts |-> <<cls_index>>, ends |-> <<cls_index>>]
        ELSE [branch |-> "in_span", raised |-> n2.raised,
              reads  |-> s1.reads \cup s2.reads \cup n1.reads \cup n2.reads,
              starts |-> <<n1.index - 1>>,
              ends   |-> IF n2.raised THEN << >> ELSE <<n2.index + 1>>]

\* -------------------------------------------- prepare_validation_features
\* faulty variant: the id of the first example of the batch
ExampleIdOfFirst(exs, mapping, w) == PyGet(exs, 0).id

\* examples["id"][sample_index] of window w (0-based)
ExampleIdOf(exs, mapping, w) == PyGet(exs, PyGet(mapping, w)).id

\* faulty variant: only the special and padding tokens are masked
MaskOffsetsOfSpecials(offsets, seq_ids, context_index) ==
    [k \in 1..Len(offsets) |-> IF seq_ids[k] # NoneTag THEN offsets[k] ELSE None]

\* [(o if sequence_ids[k] == context_index else None) for k, o in enumerate(offsets)]
MaskOffsets(offsets, seq_ids, context_index) ==
    [k \in 1..Len(offsets) |-> IF seq_ids[k] = context_index THEN offsets[k] ELSE None]

\* ----------------------------------------------------------------- inputs
\* token offsets of a context whose tokens have the given widths, with gap
\* characters of white space before each token
RECURSIVE Layout(_, _, _, _)
Layout(widths, k, pos, gap) ==
    IF k > Len(widths) THEN << >>
    ELSE <<<<pos + gap, pos + gap + widths[k]>>>>
         \o Layout(widths, k + 1, pos + gap + widths[k], gap)

\* length of the context text: its tokens, the gaps, and gap trailing characters
ContextLen(widths, gap) ==
    LET offs == Layout(widths, 1, 0, gap)
    IN  (IF Len(offs) = 0 THEN 0 ELSE offs[Len(offs)][2]) + gap

NoAnswers == [answer_start |-> << >>, text |-> << >>]

Answer(start, len) == [answer_start |-> <<start>>, text |-> <<len>>]

Example(id, widths, gap, answers) ==
    [id          |-> id,
     context     |-> Layout(widths, 1, 0, gap),
     context_len |-> ContextLen(widths, gap),
     answers     |-> answers]

\* token widths of a context: one character each, but for at most one token
\* of up to MaxTokWidth characters
WidthSeqs ==
    UNION {{[k \in 1..n |-> IF k = wide THEN w ELSE 1] : wide \in 1..n, w \in 1..MaxTokWidth} :
           n \in 0..MaxCtxTokens}
    \cup {<< >>}

\* answers in and out of the bounds of a context of the given length
AnswerSet(len) ==
    {NoAnswers} \cup {Answer(s, l) : s \in -1..(len + 1), l \in 0..MaxAnsLen}

ExampleSet ==
    UNION {{Example("a", ws, gap, ans) : ans \in AnswerSet(ContextLen(ws, gap))} :
           ws \in WidthSeqs, gap \in 0..MaxGap}

UnlabelledExampleSet ==
    {Example("a", ws, gap, NoAnswers) : ws \in WidthSeqs, gap \in 0..MaxGap}

\* examples of a batch of several: tokens of one character, no white space;
\* no answer, the empty answer at character 0, or an answer of one character
\* at any place of the context
BatchExampleSet(id) ==
    UNION {{Example(id, [k \in 1..n |-> 1], 0, ans) :
                ans \in {NoAnswers, Answer(0, 0)} \cup {Answer(s, 1) : s \in 0..(n - 1)}} :
           n \in 0..MaxCtxTokens}

\* max_length and stride the tokenizer accepts: at least one context token
\* per window, and a stride below the window's context capacity
ConfigSet ==
    {c \in [pad_on_right : BOOLEAN, pad_to_max_length : BOOLEAN,
            cap : 1..MaxCtxCap, doc_stride : 0..MaxStride] : c.doc_stride < c.cap}

\* ------------------------------------------------------------------ state
VARIABLES
    fn,                 \* the method called: "train" or "validation"
    examples,           \* the batch
    pad_on_right,       \* tokenizer.padding_side == "right"
    pad_to_max_length,  \* data_args.pad_to_max_length
    max_seq_length,     \* self.max_seq_length
    doc_stride,         \* data_args.doc_stride
    pc,                 \* "call", "loop", "returned", "raised"
    i,                  \* loop index (0-based)
    input_ids,          \* tokenized_examples["input_ids"]
    sequence_ids,       \* tokenized_examples.sequence_ids(w), per window
    offset_mapping,     \* offset_mapping / tokenized_examples["offset_mapping"]
    sample_mapping,     \* overflow_to_sample_mapping
    start_positions,    \* tokenized_examples["start_positions"]
    end_positions,      \* tokenized_examples["end_positions"]
    example_id,         \* tokenized_examples["example_id"]
    branch,             \* per window entered: the arm of the labelling code taken
    reads               \* per window entered: indices used to read its lists

config == <<fn, examples, pad_on_right, pad_to_max_length, max_seq_length, doc_stride>>
encoding == <<input_ids, sequence_ids, sample_mapping>>
labels == <<start_positions, end_positions, branch, reads>>
vars == <<config, pc, i, encoding, offset_mapping, labels, example_id>>

InitWith(method, batch, c) ==
    /\ fn = method
    /\ examples = batch
    /\ pad_on_right = c.pad_on_right
    /\ pad_to_max_length = c.pad_to_max_length
    /\ max_seq_length = Len(Template(<< >>, c.pad_on_right)) + c.cap
    /\ doc_stride = c.doc_stride
    /\ pc = "call"
    /\ i = 0
    /\ input_ids = << >>
    /\ sequence_ids = << >>
    /\ offset_mapping = << >>
    /\ sample_mapping = << >>
    /\ start_positions = << >>
    /\ end_positions = << >>
    /\ example_id = << >>
    /\ branch = << >>
    /\ reads = << >>

\* one example per batch, every shape of context and answer
Init ==
    \E c \in ConfigSet :
        \/ \E ex \in ExampleSet : InitWith("train", <<ex>>, c)
        \/ \E ex \in UnlabelledExampleSet : InitWith("validation", <<ex>>, c)

\* two examples per batch
InitBatch ==
    \E c \in ConfigSet, method \in {"train", "validation"} :
        \E ex1 \in BatchExampleSet("a"), ex2 \in BatchExampleSet("b") :
            InitWith(method, <<ex1, ex2>>, c)

\* ---------------------------------------------------------------- actions
Encoded == Tokenizer(examples, max_seq_length, doc_stride, pad_to_max_length, pad_on_right)

\* prepare_train_features up to its loop: the tokenizer call, the two pops,
\* the two empty label lists
TrainTokenize ==
    /\ pc = "call" /\ fn = "train"
    /\ input_ids' = Encoded.input_ids
    /\ sequence_ids' = Encoded.sequence_ids
    /\ offset_mapping' = Encoded.offset_mapping
    /\ sample_mapping' = Encoded.overflow_to_sample_mapping
    /\ start_positions' = << >>
    /\ end_positions' = << >>
    /\ pc' = "loop"
    /\ i' = 0
    /\ UNCHANGED <<config, example_id, branch, reads>>

Labelled ==
    LabelWindow(PyGet(input_ids, i), PyGet(offset_mapping, i), PyGet(sequence_ids, i),
                AnswersOf(examples, sample_mapping, i), pad_on_right)

\* one iteration of the loop over offset_mapping is entered
InTrainLoop ==
    /\ pc = "loop" /\ fn = "train"
    /\ i < Len(offset_mapping)

\* what the iteration appends before it ends or raises
AppendLabels ==
    /\ start_positions' = start_positions \o Labelled.starts
    /\ end_positions' = end_positions \o Labelled.ends
    /\ branch' = Append(branch, Labelled.branch)
    /\ reads' = Append(reads, Labelled.reads)
    /\ UNCHANGED <<config, encoding, offset_mapping, example_id>>

\* len(answers["answer_start"]) == 0
TrainNoAnswers ==
    /\ InTrainLoop
    /\ Labelled.branch = "no_answers"
    /\ AppendLabels
    /\ pc' = "loop" /\ i' = i + 1

\* the answer is not in the window's span
TrainOutOfSpan ==
    /\ InTrainLoop
    /\ Labelled.branch = "out_of_span"
    /\ AppendLabels
    /\ pc' = "loop" /\ i' = i + 1

\* the answer is in the window's span: the two narrowing loops
TrainInSpan ==
    /\ InTrainLoop
    /\ Labelled.branch = "in_span" /\ ~Labelled.raised
    /\ AppendLabels
    /\ pc' = "loop" /\ i' = i + 1

\* IndexError out of a scan for the context tokens
TrainScanRaises ==
    /\ InTrainLoop
    /\ Labelled.branch = "scan" /\ Labelled.raised
    /\ AppendLabels
    /\ pc' = "raised" /\ i' = i

\* IndexError out of the narrowing loop for the end position
TrainNarrowRaises ==
    /\ InTrainLoop
    /\ Labelled.branch = "in_span" /\ Labelled.raised
    /\ AppendLabels
    /\ pc' = "raised" /\ i' = i

TrainReturn ==
    /\ pc = "loop" /\ fn = "train"
    /\ i = Len(offset_mapping)
    /\ pc' = "returned"
    /\ UNCHANGED <<config, i, encoding, offset_mapping, labels, example_id>>

\* prepare_validation_features up to its loop
ValidationTokenize ==
    /\ pc = "call" /\ fn = "validation"
    /\ input_ids' = Encoded.input_ids
    /\ sequence_ids' = Encoded.sequence_ids
    /\ offset_mapping' = Encoded.offset_mapping
    /\ sample_mapping' = Encoded.overflow_to_sample_mapping
    /\ example_id' = << >>
    /\ pc' = "loop"
    /\ i' = 0
    /\ UNCHANGED <<config, labels>>

\* one iteration of the loop over range(len(input_ids))
ValidationIteration ==
    /\ pc = "loop" /\ fn = "validation"
    /\ i < Len(input_ids)
    /\ example_id' = Append(example_id, ExampleIdOf(examples, sample_mapping, i))
    /\ offset_mapping' =
           [offset_mapping EXCEPT ![i + 1] =
               MaskOffsets(@, PyGet(sequence_ids, i), ContextIndex(pad_on_right))]
    /\ i' = i + 1
    /\ UNCHANGED <<config, pc, encoding, labels>>

ValidationReturn ==
    /\ pc = "loop" /\ fn = "validation"
    /\ i = Len(input_ids)
    /\ pc' = "returned"
    /\ UNCHANGED <<config, i, encoding, offset_mapping, labels, example_id>>

Next ==
    \/ TrainTokenize
    \/ TrainNoAnswers
    \/ TrainOutOfSpan
    \/ TrainInSpan
    \/ TrainScanRaises
    \/ TrainNarrowRaises
    \/ TrainReturn
    \/ ValidationTokenize
    \/ ValidationIteration
    \/ ValidationReturn

Spec == Init /\ [][Next]_vars

SpecBatch == InitBatch /\ [][Next]_vars

\* ------------------------------------------------- vocabulary of the claims
\* Windows are numbered from 1 here (window w is Python's window w - 1);
\* token positions stay 0-based.  These definitions read the state only:
\* none of them uses the scans of the labelling code.

\* windows with a start and an end label
LabelledWindows == 1..Len(end_positions)

\* windows whose iteration was entered
EnteredWindows == 1..Len(branch)

SourceOf(w) == examples[sample_mapping[w] + 1]

HasAnswer(w) == Len(SourceOf(w).answers.answer_start) > 0

StartChar(w) == SourceOf(w).answers.answer_start[1]

EndChar(w) == StartChar(w) + SourceOf(w).answers.text[1]

Positions(w) == 0..(Len(input_ids[w]) - 1)

ContextPositions(w) ==
    {k \in Positions(w) : sequence_ids[w][k + 1] = (IF pad_on_right THEN 1 ELSE 0)}

FirstContext(w) == CHOOSE k \in ContextPositions(w) : \A j \in ContextPositions(w) : k <= j

LastContext(w) == CHOOSE k \in ContextPositions(w) : \A j \in ContextPositions(w) : j <= k

OffsetStart(w, k) == offset_mapping[w][k + 1][1]

OffsetEnd(w, k) == offset_mapping[w][k + 1][2]

\* the answer's characters lie within the window's context range
SpanContainsAnswer(w) ==
    /\ ContextPositions(w) # {}
    /\ OffsetStart(w, FirstContext(w)) <= StartChar(w)
    /\ OffsetEnd(w, LastContext(w)) >= EndChar(w)

\* position of the first anchor token of the window
FirstCls(w) ==
    CHOOSE k \in Positions(w) :
        /\ input_ids[w][k + 1] = CLS
        /\ \A j \in 0..(k - 1) : input_ids[w][j + 1] # CLS

NoAnswerLabel(w) == start_positions[w] = FirstCls(w) /\ end_positions[w] = FirstCls(w)

\* the answer's characters are not all characters of the context text
OutOfBounds(ex) ==
    /\ Len(ex.answers.answer_start) > 0
    /\ \/ ex.answers.answer_start[1] < 0
       \/ ex.answers.answer_start[1] > ex.context_len
       \/ ex.answers.answer_start[1] + ex.answers.text[1] > ex.context_len

WellFormed(ex) ==
    /\ Len(ex.answers.answer_start) > 0
    /\ ex.answers.text[1] > 0
    /\ ~OutOfBounds(ex)

Returned(method) == fn = method /\ pc = "returned"

WindowsOf(b) == {w \in 1..Len(input_ids) : sample_mapping[w] = b - 1}

\* the same example tokenized as a batch of its own
Alone(b) == Tokenizer(<<examples[b]>>, max_seq_length, doc_stride, pad_to_max_length, pad_on_right)

\* position of window w among the windows of its example
RankOf(w) == Cardinality({v \in WindowsOf(sample_mapping[w] + 1) : v <= w})

\* ----------------------------------------------------------------- claims

\* C1 (as claimed): every window labelled by the narrowing loops has both
\* labels on context tokens, the start label's token starting at or before
\* the answer, the end label's token ending at or after it, and no smaller
\* range of context tokens covering the answer.
C1_TightestSpan ==
    \A w \in LabelledWindows :
        branch[w] = "in_span" =>
            LET sp == start_positions[w]
                ep == end_positions[w]
            IN  /\ sp \in ContextPositions(w)
                /\ ep \in ContextPositions(w)
                /\ OffsetStart(w, sp) <= StartChar(w)
                /\ OffsetEnd(w, ep) >= EndChar(w)
                /\ (sp + 1 \in ContextPositions(w) => OffsetStart(w, sp + 1) > StartChar(w))
                /\ (ep - 1 \in ContextPositions(w) => OffsetEnd(w, ep - 1) < EndChar(w))

\* C2: a window of an example with an answer whose context range does not
\* contain the answer's characters is labelled (cls_index, cls_index); one
\* whose range contains them is labelled by the narrowing loops.
C2_OutOfSpanGetsCls ==
    \A w \in LabelledWindows :
        HasAnswer(w) =>
            /\ ~SpanContainsAnswer(w) => (NoAnswerLabel(w) /\ branch[w] = "out_of_span")
            /\ SpanContainsAnswer(w) => branch[w] = "in_span"

\* C2 witness: the answer lies in the second window's context range and not
\* in the first's; the first window has the no-answer label, the second a
\* label on a context token.
C2_SecondWindowOnly ==
    /\ Returned("train")
    /\ Len(input_ids) >= 2
    /\ HasAnswer(1)
    /\ ~SpanContainsAnswer(1) /\ SpanContainsAnswer(2)
    /\ NoAnswerLabel(1) /\ branch[1] = "out_of_span"
    /\ branch[2] = "in_span" /\ start_positions[2] \in ContextPositions(2)

\* C3: every window of an example without answers is labelled with the
\* position of the first anchor token of its input_ids, twice, and none of
\* its lists is read by a scan or by the containment check.
C3_NoAnswersGetCls ==
    /\ \A w \in EnteredWindows :
        ~HasAnswer(w) =>
            /\ w \in LabelledWindows
            /\ NoAnswerLabel(w)
            /\ branch[w] = "no_answers"
            /\ reads[w] = {}
    /\ (Returned("train") /\ \A b \in 1..Len(examples) : Len(examples[b].answers.answer_start) = 0)
           => Len(start_positions) = Len(input_ids) /\ Len(end_positions) = Len(input_ids)

\* C3 witness: an example without answers has been cut into several
\* windows, all labelled, the last one padded on the left so that its anchor
\* is not its first token.
C3_OverflowWithoutAnswers ==
    /\ Returned("train")
    /\ Len(input_ids) >= 2
    /\ \A w \in 1..Len(input_ids) : ~HasAnswer(w) /\ NoAnswerLabel(w)
    /\ FirstCls(Len(input_ids)) > 0

\* C4 (as claimed), for a non-empty answer inside its context that lies in
\* the context range of some window: of the windows of the example exactly
\* one is labelled by the narrowing loops and the others have the no-answer
\* label.
C4_ExactlyOneReal ==
    Returned("train") =>
        \A b \in 1..Len(examples) :
            (WellFormed(examples[b]) /\ \E w \in WindowsOf(b) : SpanContainsAnswer(w)) =>
                /\ Cardinality({w \in WindowsOf(b) : branch[w] = "in_span"}) = 1
                /\ \A w \in WindowsOf(b) : branch[w] # "in_span" => NoAnswerLabel(w)

\* C4 (amended): of the windows of an example with an answer, those labelled
\* by the narrowing loops are exactly those whose context range contains the
\* answer's characters, however many they are, and the others have the
\* no-answer label.
C4_RealIffInSpan ==
    Returned("train") =>
        \A b \in 1..Len(examples) :
            Len(examples[b].answers.answer_start) > 0 =>
                /\ {w \in WindowsOf(b) : branch[w] = "in_span"}
                       = {w \in WindowsOf(b) : SpanContainsAnswer(w)}
                /\ \A w \in WindowsOf(b) : ~SpanContainsAnswer(w) => NoAnswerLabel(w)

\* C4 witness: a non-empty answer inside the context lies in the overlap of
\* the first two windows, and both are labelled by the narrowing loops.
C4_AnswerInOverlap ==
    /\ Returned("train")
    /\ WellFormed(examples[1])
    /\ Len(input_ids) >= 2
    /\ doc_stride > 0
    /\ branch[1] = "in_span" /\ branch[2] = "in_span"
    /\ SpanContainsAnswer(1) /\ SpanContainsAnswer(2)

\* C5: in prepare_validation_features every window already rewritten keeps
\* its length, holds None at each position that is not a context token, and
\* at each context token the (start, end) pair of the tokenizer, start <= end.
C5_MaskedOffsets ==
    fn = "validation" =>
        \A w \in 1..i :
            /\ Len(offset_mapping[w]) = Len(Encoded.offset_mapping[w])
            /\ \A k \in Positions(w) :
                IF k \in ContextPositions(w)
                THEN /\ offset_mapping[w][k + 1] = Encoded.offset_mapping[w][k + 1]
                     /\ Len(offset_mapping[w][k + 1]) = 2
                     /\ OffsetStart(w, k) <= OffsetEnd(w, k)
                ELSE offset_mapping[w][k + 1] = None

\* C5 witness: prepare_validation_features returned several windows padded
\* on the left; the second keeps the offset of a context token and holds
\* None at a question token.
C5_MaskedOverflowWindow ==
    /\ Returned("validation")
    /\ ~pad_on_right /\ pad_to_max_length
    /\ Len(input_ids) >= 2
    /\ \E k \in ContextPositions(2) : offset_mapping[2][k + 1] # None
    /\ \E k \in Positions(2) : sequence_ids[2][k + 1] = 1 /\ offset_mapping[2][k + 1] = None

\* C6: example_id holds one entry per window handled, in window order, each
\* the id of the example the window's sample index names; two windows have
\* the same entry exactly when they come from the same example.
C6_ExampleIds ==
    fn = "validation" =>
        /\ pc = "call" \/ Len(example_id) = i
        /\ pc = "returned" => Len(example_id) = Len(input_ids)
        /\ \A w \in 1..Len(example_id) : example_id[w] = examples[sample_mapping[w] + 1].id
        /\ \A v, w \in 1..Len(example_id) :
               (example_id[v] = example_id[w]) <=> (sample_mapping[v] = sample_mapping[w])

\* C6 witness: prepare_validation_features returned, the first example was
\* cut into several windows, and the last window comes from the second.
C6_TwoExamplesSeveralWindows ==
    /\ Returned("validation")
    /\ Len(input_ids) >= 3
    /\ example_id[1] = examples[1].id /\ example_id[2] = examples[1].id
    /\ example_id[Len(input_ids)] = examples[2].id
    /\ examples[1].id # examples[2].id

\* C7 (as claimed): when the answer of an example is out of the bounds of
\* its context text, prepare_train_features does not return labels: it raises.
C7_MalformedAnswerRaises ==
    \A b \in 1..Len(examples) :
        (fn = "train" /\ OutOfBounds(examples[b])) => pc # "returned"

\* C7 (amended): when the answer of an example is out of the bounds of its
\* context text, every window of the example fails the containment check and
\* gets the no-answer label without an error; only an example whose context
\* has no token raises (IndexError of the scan for the first context token).
C7_MalformedAnswerGetsCls ==
    \A b \in 1..Len(examples) :
        (fn = "train" /\ OutOfBounds(examples[b])) =>
            \A w \in EnteredWindows :
                sample_mapping[w] = b - 1 =>
                    IF Len(examples[b].context) = 0
                    THEN branch[w] = "scan" /\ pc = "raised"
                    ELSE /\ branch[w] = "out_of_span"
                         /\ w \in LabelledWindows
                         /\ NoAnswerLabel(w)

\* C7 witness: an answer that starts inside the context and runs past its
\* end; prepare_train_features returned, with the no-answer label on each of
\* the example's several windows.
C7_OverrunLabelledNoAnswer ==
    /\ Returned("train")
    /\ OutOfBounds(examples[1])
    /\ 0 <= StartChar(1) /\ StartChar(1) < examples[1].context_len
    /\ Len(input_ids) >= 2
    /\ \A w \in 1..Len(input_ids) : w \in LabelledWindows /\ NoAnswerLabel(w)

C9_LabelsOrderedInRange ==
    /\ \A w \in LabelledWindows :
        /\ 0 <= start_positions[w]
        /\ start_positions[w] <= end_positions[w]
        /\ end_positions[w] <= Len(input_ids[w]) - 1
    /\ Returned("train") =>
        Len(start_positions) = Len(input_ids) /\ Len(end_positions) = Len(input_ids)

\* C10 (as claimed): for a window with a context token whose context range
\* contains the answer's characters, the four scans end without IndexError
\* and read their lists only at indices 0 .. len(input_ids) - 1.
C10_ScansInRange ==
    \A w \in EnteredWindows :
        (HasAnswer(w) /\ SpanContainsAnswer(w)) =>
            /\ w \in LabelledWindows
            /\ reads[w] \subseteq Positions(w)

====
